---- MODULE Spec2Model ----
(***************************************************************************)
(* Model of the generic pixel buffer of better-images                      *)
(* (src/src/image_buffer.rs): construction, the six iteration views, the   *)
(* pixel-wise transformations, the numeric cast and the plane operations.  *)
(*                                                                         *)
(* A buffer is a record [data, width, height, cpp, alpha, ty]: the three   *)
(* fields of the struct plus its three generic parameters (Component,      *)
(* COMPONENTS_PER_PEL, HAS_ALPHA).  Sequences are 1-based, so the          *)
(* component the code finds at index n is data[n + 1].                     *)
(*                                                                         *)
(* Component values: an integer component type stores its value; the       *)
(* floating type "f32" stores twice its value, so that halves (0.5, 255.5) *)
(* exist and the truncation made by the cast is visible.                   *)
(***************************************************************************)
EXTENDS Integers, Sequences, FiniteSets, TLC

VARIABLES pc, img, out, call, it, nops, nwrites

vars == <<pc, img, out, call, it, nops, nwrites>>

-----------------------------------------------------------------------------
(* Bounds of the exploration *)

MaxWidth == 2
MaxHeight == 2
MaxChannels == 3
MaxOps == 2
MaxWrites == 1

-----------------------------------------------------------------------------
(* Component types (pixel.rs) *)

ComponentTypes == {"u8", "u16", "f32"}

IsFloat(ty) == ty = "f32"

\* Largest value of an integer component type (u8::MAX, u16::MAX).
MaxValue(ty) == IF ty = "u8" THEN 255 ELSE 65535

\* Component::zero() and Component::default(), for every component type.
Zero(ty) == 0

\* Values a caller can put in a buffer of each type.  For "f32" they are in
\* halves: -4 is -2.0, -1 is -0.5, 2 is 1.0, 511 is 255.5, 600 is 300.0.
Samples(ty) ==
  IF ty = "u8" THEN <<1, 255, 0, 128>>
  ELSE IF ty = "u16" THEN <<300, 1, 255, 256, 0>>
  ELSE <<600, 2, -1, 511, 0, -4>>

\* A caller's flat vector of n components, all different where possible.
DataFor(ty, seed, n) ==
  [k \in 1..n |-> Samples(ty)[((seed + k - 1) % Len(Samples(ty))) + 1]]

Min(a, b) == IF a <= b THEN a ELSE b

\* Integer division rounding toward zero, as a float-to-integer cast rounds.
TruncDiv(v, d) == IF v >= 0 THEN v \div d ELSE -((-v) \div d)

\* Variant: a cast that saturates at the bounds of the destination type.
NumCast_Clamp(sty, dty, v) ==
  IF IsFloat(dty)
    THEN (IF IsFloat(sty) THEN v ELSE 2 * v)
    ELSE IF IsFloat(sty)
      THEN (IF v <= -2 THEN 0
            ELSE IF v >= 2 * (MaxValue(dty) + 1) THEN MaxValue(dty)
            ELSE TruncDiv(v, 2))
      ELSE (IF v <= MaxValue(dty) THEN v ELSE MaxValue(dty))

\* <NewComponent as NumCast>::from(v).unwrap_or_default(): None, hence the
\* default 0, when the value with its fraction dropped is outside the
\* destination integer type.
NumCast(sty, dty, v) ==
  IF IsFloat(dty)
    THEN (IF IsFloat(sty) THEN v ELSE 2 * v)
    ELSE IF IsFloat(sty)
      THEN (IF v > -2 /\ v < 2 * (MaxValue(dty) + 1)
              THEN TruncDiv(v, 2) ELSE Zero(dty))
      ELSE (IF v <= MaxValue(dty) THEN v ELSE Zero(dty))

-----------------------------------------------------------------------------
(* The buffer and its construction *)

Layouts == [cpp : 1..MaxChannels, alpha : BOOLEAN]

NoBuf == [none |-> TRUE]

ImageBuffer(data, width, height, lay, ty) ==
  [data |-> data, width |-> width, height |-> height,
   cpp |-> lay.cpp, alpha |-> lay.alpha, ty |-> ty]

LayoutOf(b) == [cpp |-> b.cpp, alpha |-> b.alpha]

\* The layout of OnePlane: ImageBuffer<Component, 1, false>.
PlaneLayout == [cpp |-> 1, alpha |-> FALSE]

Err(msg) == [tag |-> "Err", err |-> msg]
Ok(b) == [tag |-> "Ok", buf |-> b]
Val(b) == [tag |-> "Val", buf |-> b]
Some(b) == [tag |-> "Some", buf |-> b]
None == [tag |-> "None"]
Nothing == [tag |-> "Nothing"]

LayoutMismatch == "LayoutMismatch"
PlaneIndexOutOfRange == "PlaneIndexOutOfRange"

\* Variant: the channel count left out of the product.
expected_vec_elements_NoChannels(width, height, cpp) == width * height

expected_vec_elements(width, height, cpp) == width * height * cpp

\* Variant: only a vector that is too short is refused.
with_data_Lenient(data, width, height, lay, ty) ==
  IF Len(data) < expected_vec_elements(width, height, lay.cpp)
    THEN Err(LayoutMismatch)
    ELSE Ok(ImageBuffer(data, width, height, lay, ty))

with_data(data, width, height, lay, ty) ==
  IF Len(data) # expected_vec_elements(width, height, lay.cpp)
    THEN Err(LayoutMismatch)
    ELSE Ok(ImageBuffer(data, width, height, lay, ty))

\* Variant: one component allocated per pixel.
empty_OnePerPixel(width, height, lay, ty) ==
  ImageBuffer([k \in 1..(width * height) |-> Zero(ty)], width, height, lay, ty)

empty(width, height, lay, ty) ==
  ImageBuffer([k \in 1..(width * height * lay.cpp) |-> Zero(ty)],
              width, height, lay, ty)

-----------------------------------------------------------------------------
(* Iteration: array_chunks over the storage *)

\* Variant: the last whole chunk is not yielded.
chunk_left_Strict(data, cpp, off) == Len(data) - off > cpp

\* ArrayChunks::next on the storage, off components already consumed: a
\* chunk is yielded while a whole one is left.
chunk_left(data, cpp, off) == Len(data) - off >= cpp

\* Variant: the item is cut to the non-alpha components when alpha is skipped.
item_len_Truncating(cpp, alpha, skip) ==
  IF alpha /\ skip THEN cpp - 1 ELSE cpp

\* Number of components of an item of a view: Item is the whole array
\* [Component; COMPONENTS_PER_PEL].  SKIP_ALPHA is a parameter of both
\* iterator types, and next() does not look at it.
item_len(cpp, alpha, skip) == cpp

\* The offsets of the chunks an iterator started at off yields, in order.
RECURSIVE chunk_offsets(_, _, _)
chunk_offsets(data, cpp, off) ==
  IF chunk_left(data, cpp, off)
    THEN <<off>> \o chunk_offsets(data, cpp, off + cpp)
    ELSE <<>>

\* The components an item at offset off with n components refers to.
item_at(data, off, n) == SubSeq(data, off + 1, off + n)

\* The items of a read view of b, in the order next() yields them.
view_items(b, skip) ==
  LET offs == chunk_offsets(b.data, b.cpp, 0)
  IN [k \in 1..Len(offs) |->
        item_at(b.data, offs[k], item_len(b.cpp, b.alpha, skip))]

\* Storage after component j (0-based) of the item at offset off is set to v.
write_component(data, off, j, v) == [data EXCEPT ![off + j + 1] = v]

\* Storage after the item at offset off is overwritten by the leading
\* components of pel (as many as the item has).
write_item(data, off, n, pel) ==
  [x \in 1..Len(data) |->
     IF x > off /\ x <= off + Min(n, Len(pel)) THEN pel[x - off] ELSE data[x]]

-----------------------------------------------------------------------------
(* Construction by value, and the pixel-wise operations *)

\* The body of the `for ... in a.zip(b)` loops that overwrite whole items:
\* item k of the destination, k = from .. the shorter of the two sequences,
\* is overwritten by pels[k].
RECURSIVE zip_write(_, _, _, _, _)
zip_write(data, offs, pels, n, from) ==
  IF from > Min(Len(offs), Len(pels))
    THEN data
    ELSE zip_write(write_item(data, offs[from], n, pels[from]),
                   offs, pels, n, from + 1)

\* Variant: the fill goes through an alpha-skipping view.
with_val_SkipAlpha(one_pel, width, height, lay, ty) ==
  LET result == empty(width, height, lay, ty)
      offs == chunk_offsets(result.data, lay.cpp, 0)
      n == item_len_Truncating(lay.cpp, lay.alpha, TRUE)
  IN [result EXCEPT
        !.data = zip_write(result.data, offs,
                           [k \in 1..Len(offs) |-> one_pel], n, 1)]

with_val(one_pel, width, height, lay, ty) ==
  LET result == ImageBuffer(
                  [k \in 1..(width * height * lay.cpp) |-> Zero(ty)],
                  width, height, lay, ty)
      offs == chunk_offsets(result.data, lay.cpp, 0)
      n == item_len(lay.cpp, lay.alpha, FALSE)
  IN [result EXCEPT
        !.data = zip_write(result.data, offs,
                           [k \in 1..Len(offs) |-> one_pel], n, 1)]

\* The callers' pixel functions (the map_fn closures): OnePixel -> OnePixel.
MapFns == {"id", "rev", "inc"}

Inc(ty, v) == IF IsFloat(ty) THEN v + 2 ELSE (v + 1) % (MaxValue(ty) + 1)

PixelFn(fn, ty, pel) ==
  IF fn = "id" THEN pel
  ELSE IF fn = "rev" THEN [j \in 1..Len(pel) |-> pel[Len(pel) + 1 - j]]
  ELSE [j \in 1..Len(pel) |-> Inc(ty, pel[j])]

\* The callers' pixel functions of map_into: OnePixel -> the OnePixel of
\* another buffer type, with ncpp components of type nty.
MapIntoFns == {"cycle", "last"}

PixelIntoFn(fn, ty, nty, ncpp, pel) ==
  IF fn = "cycle"
    THEN [j \in 1..ncpp |-> NumCast(ty, nty, pel[((j - 1) % Len(pel)) + 1])]
    ELSE [j \in 1..ncpp |-> NumCast(ty, nty, pel[Len(pel)])]

as_other(self, nlay, nty) ==
  LET result == empty(self.width, self.height, nlay, nty)
      src == view_items(self, TRUE)
      offs == chunk_offsets(result.data, nlay.cpp, 0)
      n == item_len(nlay.cpp, nlay.alpha, TRUE)
      cast(pel) == [j \in 1..Min(Len(pel), n) |-> NumCast(self.ty, nty, pel[j])]
  IN [result EXCEPT
        !.data = zip_write(result.data, offs,
                           [k \in 1..Len(src) |-> cast(src[k])], n, 1)]

\* Variant: each output pixel computed from the next source pixel.
map_Shifted(self, fn) ==
  LET src == view_items(self, TRUE)
      offs == chunk_offsets(self.data, self.cpp, 0)
      n == item_len(self.cpp, self.alpha, TRUE)
  IN [self EXCEPT
        !.data = zip_write(self.data, offs,
                   [k \in 1..Len(src) |->
                      PixelFn(fn, self.ty, src[(k % Len(src)) + 1])], n, 1)]

map(self, fn) ==
  LET result == self
      src == view_items(self, TRUE)
      offs == chunk_offsets(result.data, result.cpp, 0)
      n == item_len(result.cpp, result.alpha, TRUE)
  IN [result EXCEPT
        !.data = zip_write(result.data, offs,
                   [k \in 1..Len(src) |-> PixelFn(fn, self.ty, src[k])], n, 1)]

map_into(self, fn, nlay, nty) ==
  LET result == empty(self.width, self.height, nlay, nty)
      src == view_items(self, TRUE)
      offs == chunk_offsets(result.data, nlay.cpp, 0)
      n == item_len(nlay.cpp, nlay.alpha, TRUE)
  IN [result EXCEPT
        !.data = zip_write(result.data, offs,
                   [k \in 1..Len(src) |->
                      PixelIntoFn(fn, self.ty, nty, nlay.cpp, src[k])], n, 1)]

\* The loop of apply: each item in turn is read, then overwritten.
RECURSIVE apply_loop(_, _, _, _, _, _)
apply_loop(data, offs, n, fn, ty, from) ==
  IF from > Len(offs)
    THEN data
    ELSE apply_loop(
           write_item(data, offs[from], n,
                      PixelFn(fn, ty, item_at(data, offs[from], n))),
           offs, n, fn, ty, from + 1)

\* Variant: the alpha component is not written back.
apply_KeepAlpha(self, fn) ==
  LET offs == chunk_offsets(self.data, self.cpp, 0)
      n == item_len_Truncating(self.cpp, self.alpha, TRUE)
  IN [self EXCEPT !.data = apply_loop(self.data, offs, n, fn, self.ty, 1)]

apply(self, fn) ==
  LET offs == chunk_offsets(self.data, self.cpp, 0)
      n == item_len(self.cpp, self.alpha, TRUE)
  IN [self EXCEPT !.data = apply_loop(self.data, offs, n, fn, self.ty, 1)]

-----------------------------------------------------------------------------
(* Planes *)

\* pel[i] on an item of n components: an index past the end panics.
index_ok(i, n) == i < n

\* Variant: the first component of every pixel, whatever the index.
get_plane_const_FirstChannel(self, i) ==
  LET result == empty(self.width, self.height, PlaneLayout, self.ty)
      src == view_items(self, TRUE)
      offs == chunk_offsets(result.data, 1, 0)
  IN Val([result EXCEPT
       !.data = zip_write(result.data, offs,
                  [k \in 1..Len(src) |-> <<src[k][1]>>], 1, 1)])

\* get_plane_const and the loop of get_plane: component i of every pixel.
\* The result is a buffer, or "panic" when the index is past the item's end
\* and there is a pixel to index.
get_plane_const(self, i) ==
  LET result == empty(self.width, self.height, PlaneLayout, self.ty)
      src == view_items(self, TRUE)
      offs == chunk_offsets(result.data, 1, 0)
      m == Min(Len(src), Len(offs))
  IN IF m > 0 /\ ~index_ok(i, item_len(self.cpp, self.alpha, TRUE))
       THEN [tag |-> "panic"]
       ELSE Val([result EXCEPT
              !.data = zip_write(result.data, offs,
                         [k \in 1..Len(src) |-> <<src[k][i + 1]>>], 1, 1)])

\* Variant: the index is checked against the number of non-alpha channels.
get_plane_NoAlpha(self, i) ==
  IF i >= item_len_Truncating(self.cpp, self.alpha, TRUE)
    THEN Err(PlaneIndexOutOfRange)
    ELSE Ok(get_plane_const(self, i).buf)

get_plane(self, i) ==
  IF i >= self.cpp
    THEN Err(PlaneIndexOutOfRange)
    ELSE Ok(get_plane_const(self, i).buf)

\* Result<OnePlane, _>::unwrap_or_default(): the derived Default of the
\* buffer, an empty vector with width and height 0.
unwrap_or_default(r, ty) ==
  IF r.tag = "Ok" THEN r.buf ELSE ImageBuffer(<<>>, 0, 0, PlaneLayout, ty)

\* Variant: the plane asked for is the one past the last channel.
get_alpha_PastEnd(self) ==
  IF ~self.alpha
    THEN None
    ELSE Some(unwrap_or_default(get_plane(self, self.cpp), self.ty))

get_alpha(self) ==
  IF ~self.alpha
    THEN None
    ELSE Some(unwrap_or_default(get_plane(self, self.cpp - 1), self.ty))

\* The loop of put_plane and put_plane_const: pel[i] = new_pel[0] for the
\* zipped items.  The first zipped pair panics when i is past the item's end.
RECURSIVE put_loop(_, _, _, _, _)
put_loop(data, offs, vals, i, from) ==
  IF from > Min(Len(offs), Len(vals))
    THEN data
    ELSE put_loop(write_component(data, offs[from], i, vals[from][1]),
                  offs, vals, i, from + 1)

\* Variant: channel i of the pixels the plane does not reach is zeroed.
put_plane_Padded(self, i, plane) ==
  LET offs == chunk_offsets(self.data, self.cpp, 0)
      vals == view_items(plane, TRUE)
      pad == [k \in 1..Len(offs) |->
                IF k <= Len(vals) THEN vals[k] ELSE <<Zero(self.ty)>>]
  IN IF Len(offs) > 0 /\ ~index_ok(i, item_len(self.cpp, self.alpha, TRUE))
       THEN [tag |-> "panic"]
       ELSE Val([self EXCEPT !.data = put_loop(self.data, offs, pad, i, 1)])

put_plane(self, i, plane) ==
  LET offs == chunk_offsets(self.data, self.cpp, 0)
      vals == view_items(plane, TRUE)
      m == Min(Len(offs), Len(vals))
  IN IF m > 0 /\ ~index_ok(i, item_len(self.cpp, self.alpha, TRUE))
       THEN [tag |-> "panic"]
       ELSE Val([self EXCEPT !.data = put_loop(self.data, offs, vals, i, 1)])

put_plane_const(self, i, plane) == put_plane(self, i, plane)

-----------------------------------------------------------------------------
(* The program: a caller that constructs one buffer and then uses it *)

Views == {"iter", "iter_mut", "iter_no_alpha", "iter_no_alpha_mut",
          "iter_with_alpha", "iter_with_alpha_mut"}

MutViews == {"iter_mut", "iter_no_alpha_mut", "iter_with_alpha_mut"}

\* The SKIP_ALPHA parameter of the iterator each view constructs.
skip_alpha(view) == view \notin {"iter_with_alpha", "iter_with_alpha_mut"}

\* An iterator: the view that made it, the components its ArrayChunks has
\* consumed, the number of components of its Item type, the offsets of the
\* items yielded so far, and whether next() has returned None.
NoIter ==
  [view |-> "none", off |-> 0, n |-> 0, items |-> <<>>, done |-> FALSE]

NoCall == [op |-> "none"]

\* The values a caller stores through a mutable item.
WriteValues(ty) == IF IsFloat(ty) THEN {15} ELSE {7}

Init ==
  /\ pc = "init"
  /\ img = NoBuf
  /\ out = Nothing
  /\ call = NoCall
  /\ it = NoIter
  /\ nops = 0
  /\ nwrites = 0

WithData(lay, ty, width, height, data) ==
  /\ pc = "init"
  /\ LET r == with_data(data, width, height, lay, ty)
     IN /\ out' = r
        /\ img' = IF r.tag = "Ok" THEN r.buf ELSE NoBuf
        /\ pc' = IF r.tag = "Ok" THEN "ready" ELSE "init"
  /\ call' = [op |-> "with_data", lay |-> lay, ty |-> ty, width |-> width,
              height |-> height, data |-> data]
  /\ UNCHANGED <<it, nops, nwrites>>

Empty(lay, ty, width, height) ==
  /\ pc = "init"
  /\ img' = empty(width, height, lay, ty)
  /\ out' = Val(img')
  /\ pc' = "ready"
  /\ call' = [op |-> "empty", lay |-> lay, ty |-> ty, width |-> width,
              height |-> height]
  /\ UNCHANGED <<it, nops, nwrites>>

WithVal(lay, ty, width, height, one_pel) ==
  /\ pc = "init"
  /\ img' = with_val(one_pel, width, height, lay, ty)
  /\ out' = Val(img')
  /\ pc' = "ready"
  /\ call' = [op |-> "with_val", lay |-> lay, ty |-> ty, width |-> width,
              height |-> height, one_pel |-> one_pel]
  /\ UNCHANGED <<it, nops, nwrites>>

\* Every construction path, with vectors one short, exact and one long.
Construct(tys, seeds) ==
  \E lay \in Layouts, ty \in tys,
     width \in 0..MaxWidth, height \in 0..MaxHeight :
    \/ \E seed \in seeds, d \in {-1, 0, 1} :
         /\ expected_vec_elements(width, height, lay.cpp) + d >= 0
         /\ WithData(lay, ty, width, height,
              DataFor(ty, seed,
                      expected_vec_elements(width, height, lay.cpp) + d))
    \/ Empty(lay, ty, width, height)
    \/ \E seed \in seeds :
         WithVal(lay, ty, width, height, DataFor(ty, seed + 1, lay.cpp))

\* A buffer whose components differ from pixel to pixel and channel to
\* channel, for the scenarios that go on to use the buffer.
Load(tys) ==
  \E lay \in Layouts, ty \in tys,
     width \in 0..MaxWidth, height \in 0..MaxHeight :
    WithData(lay, ty, width, height,
             DataFor(ty, 0, expected_vec_elements(width, height, lay.cpp)))

\* Operations that read the buffer and return a new value.
Map(fn) ==
  /\ pc = "ready"
  /\ out' = Val(map(img, fn))
  /\ call' = [op |-> "map", fn |-> fn, pre |-> img]
  /\ pc' = "returned"
  /\ UNCHANGED <<img, it, nops, nwrites>>

MapInto(fn, nlay, nty) ==
  /\ pc = "ready"
  /\ out' = Val(map_into(img, fn, nlay, nty))
  /\ call' = [op |-> "map_into", fn |-> fn, lay |-> nlay, ty |-> nty,
              pre |-> img]
  /\ pc' = "returned"
  /\ UNCHANGED <<img, it, nops, nwrites>>

AsOther(nlay, nty) ==
  /\ pc = "ready"
  /\ out' = Val(as_other(img, nlay, nty))
  /\ call' = [op |-> "as_other", lay |-> nlay, ty |-> nty, pre |-> img]
  /\ pc' = "returned"
  /\ UNCHANGED <<img, it, nops, nwrites>>

GetPlane(i) ==
  /\ pc = "ready"
  /\ out' = get_plane(img, i)
  /\ call' = [op |-> "get_plane", i |-> i, pre |-> img]
  /\ pc' = "returned"
  /\ UNCHANGED <<img, it, nops, nwrites>>

GetPlaneConst(i) ==
  /\ pc = "ready"
  /\ LET r == get_plane_const(img, i)
     IN /\ out' = r
        /\ pc' = IF r.tag = "panic" THEN "panicked" ELSE "returned"
  /\ call' = [op |-> "get_plane_const", i |-> i, pre |-> img]
  /\ UNCHANGED <<img, it, nops, nwrites>>

GetAlpha ==
  /\ pc = "ready"
  /\ out' = get_alpha(img)
  /\ call' = [op |-> "get_alpha", pre |-> img]
  /\ pc' = "returned"
  /\ UNCHANGED <<img, it, nops, nwrites>>

\* The caller lets the returned value go out of scope.
Drop ==
  /\ pc = "returned"
  /\ pc' = "ready"
  /\ out' = Nothing
  /\ call' = NoCall
  /\ UNCHANGED <<img, it, nops, nwrites>>

\* Operations that change the buffer in place.
Apply(fn) ==
  /\ pc = "ready"
  /\ nops < MaxOps
  /\ img' = apply(img, fn)
  /\ out' = Nothing
  /\ call' = [op |-> "apply", fn |-> fn, pre |-> img]
  /\ nops' = nops + 1
  /\ UNCHANGED <<pc, it, nwrites>>

\* A plane of the caller's, pw pixels wide and as high as the receiver.
CallerPlane(ty, pw, height) ==
  ImageBuffer(DataFor(ty, 1, pw * height), pw, height, PlaneLayout, ty)

PutPlane(i, pw) ==
  /\ pc = "ready"
  /\ nops < MaxOps
  /\ LET plane == CallerPlane(img.ty, pw, img.height)
         r == put_plane(img, i, plane)
     IN /\ img' = IF r.tag = "panic" THEN img ELSE r.buf
        /\ pc' = IF r.tag = "panic" THEN "panicked" ELSE pc
        /\ call' = [op |-> "put_plane", i |-> i, plane |-> plane, pre |-> img]
  /\ out' = Nothing
  /\ nops' = nops + 1
  /\ UNCHANGED <<it, nwrites>>

PutPlaneConst(i, pw) ==
  /\ pc = "ready"
  /\ nops < MaxOps
  /\ LET plane == CallerPlane(img.ty, pw, img.height)
         r == put_plane_const(img, i, plane)
     IN /\ img' = IF r.tag = "panic" THEN img ELSE r.buf
        /\ pc' = IF r.tag = "panic" THEN "panicked" ELSE pc
        /\ call' = [op |-> "put_plane_const", i |-> i, plane |-> plane,
                    pre |-> img]
  /\ out' = Nothing
  /\ nops' = nops + 1
  /\ UNCHANGED <<it, nwrites>>

\* The caller writes the plane get_plane returned into channel i of a zeroed
\* buffer of the receiver's type, width and height.
PutPlaneBack ==
  /\ pc = "returned"
  /\ call.op = "get_plane"
  /\ out.tag = "Ok"
  /\ LET dst == empty(img.width, img.height, LayoutOf(img), img.ty)
         r == put_plane(dst, call.i, out.buf)
     IN /\ out' = r
        /\ pc' = IF r.tag = "panic" THEN "panicked" ELSE "returned"
  /\ call' = [op |-> "put_plane_back", i |-> call.i, plane |-> out.buf,
              pre |-> img]
  /\ UNCHANGED <<img, it, nops, nwrites>>

\* Iteration by the caller: a view is created, next() is called until the
\* caller stops, and the items of a mutable view can be written through.
IterStart(view) ==
  /\ pc = "ready"
  /\ nops < MaxOps
  /\ pc' = "iterating"
  /\ it' = [view |-> view, off |-> 0,
            n |-> item_len(img.cpp, img.alpha, skip_alpha(view)),
            items |-> <<>>, done |-> FALSE]
  /\ out' = Nothing
  /\ call' = [op |-> "iterate", view |-> view, pre |-> img]
  /\ nops' = nops + 1
  /\ UNCHANGED <<img, nwrites>>

\* next(): the next chunk, or None, and None again ever after.
IterNext ==
  /\ pc = "iterating"
  /\ IF chunk_left(img.data, img.cpp, it.off)
       THEN it' = [it EXCEPT !.off = it.off + img.cpp,
                             !.items = Append(it.items, it.off)]
       ELSE it' = [it EXCEPT !.done = TRUE]
  /\ UNCHANGED <<pc, img, out, call, nops, nwrites>>

\* The body of a `for pel in b.iter_mut()` loop: a write of component j
\* through the item next() yielded last.
IterWrite(j) ==
  /\ pc = "iterating"
  /\ it.view \in MutViews
  /\ nwrites < MaxWrites
  /\ ~it.done
  /\ Len(it.items) > 0
  /\ index_ok(j, it.n)
  /\ \E v \in WriteValues(img.ty) :
       img' = [img EXCEPT
                 !.data = write_component(img.data, it.items[Len(it.items)],
                                          j, v)]
  /\ nwrites' = nwrites + 1
  /\ UNCHANGED <<pc, out, call, it, nops>>

IterDrop ==
  /\ pc = "iterating"
  /\ pc' = "ready"
  /\ it' = NoIter
  /\ UNCHANGED <<img, out, call, nops, nwrites>>

\* The component types of the buffers the scenarios construct; the cast
\* scenario uses every type.
BufferTypes == {"u8", "f32"}

\* Scenario: construction alone.
NextNew == Construct(ComponentTypes, {0, 1})

SpecNew == Init /\ [][NextNew]_vars

\* Scenario: one pass over a buffer through one of the views.
NextIter ==
  \/ Load(BufferTypes)
  \/ \E view \in Views : IterStart(view)
  \/ IterNext
  \/ \E j \in 0..(MaxChannels - 1) : IterWrite(j)
  \/ IterDrop

SpecIter == Init /\ [][NextIter]_vars

\* Scenario: the pixel-wise operations.
NextMap ==
  \/ Load(BufferTypes)
  \/ \E fn \in MapFns : Map(fn)
  \/ \E fn \in MapIntoFns, nlay \in Layouts, nty \in BufferTypes :
       MapInto(fn, nlay, nty)
  \/ \E fn \in MapFns : Apply(fn)
  \/ Drop

SpecMap == Init /\ [][NextMap]_vars

\* Scenario: the cast between buffer types.
NextCast ==
  \/ Load(ComponentTypes)
  \/ \E nlay \in Layouts, nty \in ComponentTypes : AsOther(nlay, nty)
  \/ Drop

SpecCast == Init /\ [][NextCast]_vars

\* Scenario: planes taken out of a buffer, and put back into a zeroed one.
NextPlane ==
  \/ Load(BufferTypes)
  \/ \E i \in 0..MaxChannels : GetPlane(i)
  \/ \E i \in 0..MaxChannels : GetPlaneConst(i)
  \/ GetAlpha
  \/ PutPlaneBack
  \/ Drop

SpecPlane == Init /\ [][NextPlane]_vars

\* Scenario: planes of the caller's, narrower than, as wide as and wider than
\* the buffer, written into it with any channel index.
NextPut ==
  \/ Load(BufferTypes)
  \/ \E i \in 0..MaxChannels, d \in {-1, 0, 1} :
       /\ pc = "ready"
       /\ img.width + d >= 0
       /\ PutPlane(i, img.width + d)
  \/ \E i \in 0..MaxChannels, d \in {-1, 0, 1} :
       /\ pc = "ready"
       /\ img.width + d >= 0
       /\ PutPlaneConst(i, img.width + d)

SpecPut == Init /\ [][NextPut]_vars

\* Scenario: any construction followed by operations that change the buffer
\* in place.
Next ==
  \/ Construct(BufferTypes, {0})
  \/ \E fn \in MapFns : Apply(fn)
  \/ \E i \in 0..MaxChannels, pw \in {1, MaxWidth + 1} : PutPlane(i, pw)
  \/ \E i \in 0..MaxChannels, pw \in {1, MaxWidth + 1} : PutPlaneConst(i, pw)
  \/ \E view \in MutViews : IterStart(view)
  \/ IterNext
  \/ \E j \in 0..(MaxChannels - 1) : IterWrite(j)
  \/ IterDrop

Spec == Init /\ [][Next]_vars

-----------------------------------------------------------------------------
(* Properties *)

\* The pixel k (0-based, row-major) of a buffer, read from its storage.
Pixel(b, k) == SubSeq(b.data, k * b.cpp + 1, (k + 1) * b.cpp)

NumPixels(b) == b.width * b.height

InPlaceOps == {"apply", "put_plane", "put_plane_const", "iterate"}

\* C1: the storage of the buffer has width * height * C components after
\* every construction path, and still after any sequence of apply,
\* put_plane, put_plane_const and writes through the mutable views, none of
\* which changes width or height.
LayoutInvariant ==
  img # NoBuf =>
    /\ Len(img.data) = img.width * img.height * img.cpp
    /\ (call.op \in {"with_data", "empty", "with_val"} =>
          /\ img.width = call.width
          /\ img.height = call.height
          /\ img.cpp = call.lay.cpp)
    /\ (call.op \in InPlaceOps =>
          /\ img.width = call.pre.width
          /\ img.height = call.pre.height
          /\ img.cpp = call.pre.cpp)

\* Two operations in place, a write through a mutable view among them, have
\* changed a buffer of several pixels.
LayoutWitness ==
  /\ pc = "ready"
  /\ nops = MaxOps
  /\ nwrites > 0
  /\ call.op \in {"put_plane", "put_plane_const"}
  /\ NumPixels(img) > 1
  /\ img.data # call.pre.data

\* C2: with_data fails with LayoutMismatch exactly when the vector's length
\* is not width * height * C; otherwise it returns a buffer holding the
\* given vector, unchanged, with the given width and height.
WithDataChecksLength ==
  call.op = "with_data" =>
    /\ (out.tag = "Err") <=>
         (Len(call.data) # call.width * call.height * call.lay.cpp)
    /\ (out.tag = "Err" => out.err = LayoutMismatch /\ img = NoBuf)
    /\ (out.tag # "Err" =>
          /\ out.tag = "Ok"
          /\ out.buf.data = call.data
          /\ out.buf.width = call.width
          /\ out.buf.height = call.height
          /\ img = out.buf)

\* A vector one component too long for a buffer of several pixels is refused.
WithDataWitness ==
  /\ call.op = "with_data"
  /\ out.tag = "Err"
  /\ call.width * call.height > 1
  /\ call.lay.cpp > 1
  /\ Len(call.data) = call.width * call.height * call.lay.cpp + 1

\* C3: empty always returns a buffer, of width * height pixels whose every
\* component is zero, alpha included; with a width or height of 0 its
\* storage is empty.
EmptyIsZero ==
  call.op = "empty" =>
    /\ out.tag = "Val"
    /\ img = out.buf
    /\ img.width = call.width
    /\ img.height = call.height
    /\ Len(img.data) = call.width * call.height * call.lay.cpp
    /\ \A k \in 0..(call.width * call.height - 1) :
         Pixel(img, k) = [j \in 1..call.lay.cpp |-> 0]
    /\ (call.width = 0 \/ call.height = 0 => img.data = <<>>)

\* empty has made a buffer of several pixels with an alpha channel.
EmptyWitness ==
  /\ call.op = "empty"
  /\ call.lay.alpha
  /\ call.lay.cpp > 1
  /\ call.width * call.height > 1
  /\ Len(img.data) > 0

\* C4: with_val returns a buffer of width * height pixels, each of which,
\* read through the alpha-inclusive view, is the given pixel in all of its C
\* components.
WithValFillsEveryPixel ==
  call.op = "with_val" =>
    /\ img.width = call.width
    /\ img.height = call.height
    /\ view_items(img, FALSE)
         = [k \in 1..(call.width * call.height) |-> call.one_pel]
    /\ \A k \in 0..(call.width * call.height - 1) :
         Pixel(img, k) = call.one_pel

\* with_val has filled several pixels of a buffer with an alpha channel, the
\* alpha of the given pixel not being zero.
WithValWitness ==
  /\ call.op = "with_val"
  /\ call.lay.alpha
  /\ call.lay.cpp > 1
  /\ call.one_pel[call.lay.cpp] # 0
  /\ call.width * call.height > 1

\* C5: every view yields exactly width * height items and then ends; item k
\* (from 0) is the run of storage starting at k * C, the pixel at
\* x = k % width, y = k / width.
IterationIsRowMajor ==
  pc = "iterating" =>
    /\ Len(it.items) <= img.width * img.height
    /\ (it.done => Len(it.items) = img.width * img.height)
    /\ \A k \in 0..(Len(it.items) - 1) :
         LET x == k % img.width
             y == k \div img.width
         IN /\ it.items[k + 1] = k * img.cpp
            /\ it.items[k + 1] = (y * img.width + x) * img.cpp
            /\ x < img.width /\ y < img.height

\* A view has been run to its end over a buffer of two rows and two columns.
IterationWitness ==
  /\ pc = "iterating"
  /\ it.done
  /\ img.width > 1
  /\ img.height > 1
  /\ img.cpp > 1
  /\ Len(it.items) = img.width * img.height

\* C6: on a buffer with alpha, the items of the alpha-skipping views have
\* C - 1 components and those of the alpha-inclusive views have C; on a
\* buffer without alpha the items of every view have C.
ItemLengthFollowsView ==
  (pc = "iterating" /\ Len(it.items) > 0) =>
    it.n = (IF img.alpha /\ skip_alpha(it.view) THEN img.cpp - 1 ELSE img.cpp)

\* C7: on a buffer with alpha, the writes made through the items of iter_mut
\* and iter_no_alpha_mut leave the alpha component of every pixel as it was
\* when the view was created.
SkippingViewsKeepAlpha ==
  (call.op = "iterate" /\ call.view \in {"iter_mut", "iter_no_alpha_mut"}
     /\ img.alpha) =>
    \A k \in 0..(NumPixels(img) - 1) :
      Pixel(img, k)[img.cpp] = Pixel(call.pre, k)[img.cpp]

\* C8: map and map_into return a buffer of the source's width and height
\* whose pixel at every position is the function's value on the source's
\* pixel at that position; map with the identity returns a buffer equal to
\* the source.  The source is left as it was.
MapIsPixelwise ==
  /\ call.op = "map" =>
       /\ out.tag = "Val"
       /\ img = call.pre
       /\ out.buf.width = call.pre.width
       /\ out.buf.height = call.pre.height
       /\ LayoutOf(out.buf) = LayoutOf(call.pre)
       /\ Len(out.buf.data) = Len(call.pre.data)
       /\ \A k \in 0..(NumPixels(call.pre) - 1) :
            Pixel(out.buf, k) = PixelFn(call.fn, call.pre.ty, Pixel(call.pre, k))
       /\ (call.fn = "id" => out.buf = call.pre)
  /\ call.op = "map_into" =>
       /\ out.tag = "Val"
       /\ img = call.pre
       /\ out.buf.width = call.pre.width
       /\ out.buf.height = call.pre.height
       /\ LayoutOf(out.buf) = call.lay
       /\ Len(out.buf.data) = NumPixels(call.pre) * call.lay.cpp
       /\ \A k \in 0..(NumPixels(call.pre) - 1) :
            Pixel(out.buf, k) = PixelIntoFn(call.fn, call.pre.ty, call.ty,
                                            call.lay.cpp, Pixel(call.pre, k))

\* map has returned a buffer that differs from its source of several pixels
\* with an alpha channel.
MapWitness ==
  /\ call.op = "map"
  /\ call.fn = "rev"
  /\ call.pre.alpha
  /\ call.pre.cpp > 1
  /\ NumPixels(call.pre) > 1
  /\ out.buf.data # call.pre.data

\* C9: after apply, the buffer is the one map returns on the buffer as it
\* was before: same width and height, same components.
ApplyIsMapInPlace ==
  call.op = "apply" =>
    /\ img = map(call.pre, call.fn)
    /\ img.width = call.pre.width
    /\ img.height = call.pre.height
    /\ \A k \in 0..(NumPixels(call.pre) - 1) :
         Pixel(img, k) = PixelFn(call.fn, call.pre.ty, Pixel(call.pre, k))

\* apply has changed a buffer of several pixels with an alpha channel.
ApplyWitness ==
  /\ call.op = "apply"
  /\ call.fn = "rev"
  /\ call.pre.alpha
  /\ call.pre.cpp > 1
  /\ NumPixels(call.pre) > 1
  /\ img.data # call.pre.data

\* The number a component of type ty stores as v, doubled (a float in
\* halves is already doubled).
Doubled(ty, v) == IF IsFloat(ty) THEN v ELSE 2 * v

\* The destination integer type can hold the value once its fraction is
\* dropped: -1 < value < MAX + 1.
Representable(sty, dty, v) ==
  Doubled(sty, v) > -2 /\ Doubled(sty, v) < 2 * (MaxValue(dty) + 1)

PlaneOf(b, i) == [k \in 1..NumPixels(b) |-> Pixel(b, k - 1)[i + 1]]

\* C11: get_plane(i) returns the PlaneIndexOutOfRange error exactly when
\* i >= C; for i < C it returns Ok with a single-channel buffer of the
\* source's width and height whose pixel k is component i of the source's
\* pixel k, the alpha channel i = C - 1 included.  The source is left as it
\* was.
GetPlaneChecksIndex ==
  call.op = "get_plane" =>
    /\ img = call.pre
    /\ (out.tag = "Err") <=> (call.i >= call.pre.cpp)
    /\ (out.tag = "Err" => out.err = PlaneIndexOutOfRange)
    /\ (out.tag # "Err" =>
          /\ out.tag = "Ok"
          /\ LayoutOf(out.buf) = PlaneLayout
          /\ out.buf.ty = call.pre.ty
          /\ out.buf.width = call.pre.width
          /\ out.buf.height = call.pre.height
          /\ Len(out.buf.data) = NumPixels(call.pre)
          /\ \A k \in 0..(NumPixels(call.pre) - 1) :
               Pixel(out.buf, k) = <<Pixel(call.pre, k)[call.i + 1]>>)

\* get_plane has returned the alpha plane, not all zero, of a buffer of
\* several pixels and several channels.
GetPlaneWitness ==
  /\ call.op = "get_plane"
  /\ out.tag = "Ok"
  /\ call.pre.alpha
  /\ call.pre.cpp > 1
  /\ call.i = call.pre.cpp - 1
  /\ NumPixels(call.pre) > 1
  /\ \E x \in 1..Len(out.buf.data) : out.buf.data[x] # 0

\* C12: get_alpha returns None on a buffer without alpha; on a buffer with
\* alpha it returns Some of the plane get_plane(C - 1) returns as Ok: the
\* source's width and height, pixel k holding the stored alpha of the
\* source's pixel k, never the empty default buffer.
GetAlphaIsLastPlane ==
  call.op = "get_alpha" =>
    /\ img = call.pre
    /\ (~call.pre.alpha => out = None)
    /\ (call.pre.alpha =>
          /\ out.tag = "Some"
          /\ get_plane(call.pre, call.pre.cpp - 1).tag = "Ok"
          /\ out.buf = get_plane(call.pre, call.pre.cpp - 1).buf
          /\ out.buf.width = call.pre.width
          /\ out.buf.height = call.pre.height
          /\ out.buf.data = PlaneOf(call.pre, call.pre.cpp - 1))

\* get_alpha has returned the alpha plane, not all zero, of a buffer of
\* several pixels and several channels.
GetAlphaWitness ==
  /\ call.op = "get_alpha"
  /\ out.tag = "Some"
  /\ call.pre.cpp > 1
  /\ NumPixels(call.pre) > 1
  /\ \E x \in 1..Len(out.buf.data) : out.buf.data[x] # 0

\* C13: the plane get_plane(i) returns for a channel i < C of a buffer, put
\* with put_plane(i, plane) into a zeroed buffer of the same layout, width
\* and height, gives a buffer whose channel i is the source's channel i at
\* every pixel and whose other channels are all still zero.
PlaneRoundTrip ==
  call.op = "put_plane_back" =>
    /\ call.i < call.pre.cpp
    /\ call.plane = get_plane(call.pre, call.i).buf
    /\ out.tag = "Val"
    /\ LayoutOf(out.buf) = LayoutOf(call.pre)
    /\ out.buf.width = call.pre.width
    /\ out.buf.height = call.pre.height
    /\ Len(out.buf.data) = Len(call.pre.data)
    /\ PlaneOf(out.buf, call.i) = PlaneOf(call.pre, call.i)
    /\ \A k \in 0..(NumPixels(call.pre) - 1), j \in 0..(call.pre.cpp - 1) :
         Pixel(out.buf, k)[j + 1] =
           (IF j = call.i THEN Pixel(call.pre, k)[j + 1] ELSE 0)

\* A channel other than the first, not all zero, of a buffer of several
\* pixels has gone through get_plane and put_plane, the source having
\* another channel that is not zero.
PlaneRoundTripWitness ==
  /\ call.op = "put_plane_back"
  /\ call.i > 0
  /\ NumPixels(call.pre) > 1
  /\ \E x \in 1..Len(out.buf.data) : out.buf.data[x] # 0
  /\ out.buf.data # call.pre.data

\* C14: no operation aborts: whatever the channel index and the size of
\* the plane, an operation completes or returns an explicit error
\* (LayoutMismatch, PlaneIndexOutOfRange), and the caller never ends in a
\* panic.
NoOperationAborts ==
  /\ pc # "panicked"
  /\ (out.tag = "Err" => out.err \in {LayoutMismatch, PlaneIndexOutOfRange})

\* C15: put_plane(i, plane) and put_plane_const with i < C, on a receiver
\* of n pixels and a plane of m pixels, return normally; component i of the
\* receiver's pixel k is then the plane's pixel k for every k < min(n, m),
\* and every other component of those pixels, every component of the
\* pixels k >= min(n, m), the width, the height and the length of the
\* storage are as they were before the call.
PutPlaneWritesOneChannel ==
  (call.op \in {"put_plane", "put_plane_const"} /\ call.i < call.pre.cpp) =>
    LET n == NumPixels(call.pre)
        m == NumPixels(call.plane)
    IN /\ pc # "panicked"
       /\ img.width = call.pre.width
       /\ img.height = call.pre.height
       /\ LayoutOf(img) = LayoutOf(call.pre)
       /\ Len(img.data) = Len(call.pre.data)
       /\ \A k \in 0..(n - 1), j \in 0..(call.pre.cpp - 1) :
            Pixel(img, k)[j + 1] =
              (IF j = call.i /\ k < Min(n, m)
                 THEN Pixel(call.plane, k)[1]
                 ELSE Pixel(call.pre, k)[j + 1])

\* A plane of fewer pixels than the receiver, but not empty, has been put
\* into a channel of a receiver of several channels, and has changed it.
PutPlaneWitness ==
  /\ call.op = "put_plane"
  /\ pc = "ready"
  /\ call.i < call.pre.cpp
  /\ call.pre.cpp > 1
  /\ NumPixels(call.plane) > 0
  /\ NumPixels(call.plane) < NumPixels(call.pre)
  /\ img.data # call.pre.data

====
